---- MODULE Spec2Model ----
(***************************************************************************)
(* The multi-model predator-prey notebook                                  *)
(* (Assignments/Group12_assignment3 - multimodel assignment.ipynb) as a    *)
(* state machine.  The cells run top to bottom; a cell that performs       *)
(* experiments is a sequence of steps: entering the evaluator, sampling    *)
(* the scenarios, running the experiments (one by one for the sequential   *)
(* evaluator, on the worker processes of a pool for the multiprocessing    *)
(* evaluator), binding the results and leaving the evaluator.              *)
(*                                                                         *)
(* Parameter values are kept as integers, scaled by 10^4 (0.015 is 150).   *)
(* An outcome series is kept by its shape: its variable names and its      *)
(* number of time steps (the simulation engines are not part of the        *)
(* notebook).                                                              *)
(***************************************************************************)
EXTENDS Integers, Sequences, FiniteSets, TLC

\* ------------------------------------------------------------------ bounds
\* number of scenarios asked of perform_experiments (the notebook asks 50)
NumScenarios == 2
\* largest number of worker processes a pool gets (the number of cores)
MaxProcesses == 2
\* a sampled value is lower + l * (upper - lower) / Levels, l in 0..Levels
Levels == 1

\* ------------------------------------------------------- the model objects
RealParameter(name, lower, upper) ==
    [name |-> name, lower |-> lower, upper |-> upper]

TimeSeriesOutcome(name) == [name |-> name]

\* an outcome that is a row of cells of the sheet: first and last column
\* as their letters (A = 1 .. Z = 26)
TimeSeriesRange(name, first, last) ==
    [name |-> name, first |-> first, last |-> last]

RECURSIVE ColumnNumber(_)
ColumnNumber(letters) ==
    IF letters = << >> THEN 0
    ELSE 26 * ColumnNumber(SubSeq(letters, 1, Len(letters) - 1))
         + letters[Len(letters)]

RangeLength(o) == ColumnNumber(o.last) - ColumnNumber(o.first) + 1

FinalTime == 365
StepsPerDay == 4
\* the series of the Python function: one value per dt from 0 to FinalTime
PredPreySteps == FinalTime * StepsPerDay + 1

PredPreyUncertainties ==
    << RealParameter("prey_birth_rate", 150, 350),
       RealParameter("predation_rate", 5, 30),
       RealParameter("predator_efficiency", 10, 40),
       RealParameter("predator_loss_rate", 400, 800) >>

PredPreyOutcomes ==
    << TimeSeriesOutcome("TIME"),
       TimeSeriesOutcome("predators"),
       TimeSeriesOutcome("prey") >>

modelPythonDef ==
    [name |-> "PredPreyPython", kind |-> "Model", wd |-> "",
     uncertainties |-> PredPreyUncertainties,
     outcomes |-> PredPreyOutcomes,
     run_length |-> 0]

modelExcelDef ==
    [name |-> "PredPreyExcel", kind |-> "ExcelModel", wd |-> "./model",
     uncertainties |-> << RealParameter("B3", 150, 350),
                          RealParameter("B4", 5, 30),
                          RealParameter("B5", 10, 40),
                          RealParameter("B6", 400, 800) >>,
     outcomes |-> << TimeSeriesRange("B14:BDF14", <<2>>, <<2, 4, 6>>),
                     TimeSeriesRange("B18:BDF18", <<2>>, <<2, 4, 6>>),
                     TimeSeriesRange("B17:BDF17", <<2>>, <<2, 4, 6>>) >>,
     run_length |-> 0]

modelNetlogoDef ==
    [name |-> "predprey", kind |-> "NetLogoModel", wd |-> "./model",
     uncertainties |-> PredPreyUncertainties,
     outcomes |-> PredPreyOutcomes,
     run_length |-> 100]

\* pysd.read_vensim gives a PySD model, not a workbench model; the
\* notebook then sets uncertainties and outcomes on it as attributes
modelVensimDef ==
    [name |-> "PredPrey.mdl", kind |-> "pysd", wd |-> "",
     uncertainties |-> PredPreyUncertainties,
     outcomes |-> PredPreyOutcomes,
     run_length |-> 0]

Undefined == [kind |-> "undefined"]
Unbound == [bound |-> FALSE]

ModelNames == {"modelPython", "modelExcel", "modelNetlogo", "modelVensim"}

\* ------------------------------------------------------------------- state
VARIABLES
    pc,            \* the cell being run, or the step inside it
    models,        \* the model objects, by the name of their variable
    evaluator,     \* the evaluator of the with-block being run
    scenarios,     \* the scenarios sampled for the batch being performed
    callback,      \* the results the batch has collected so far, by experiment
    running,       \* per worker process: the experiment it runs, or 0
    resultsPython, \* the result variables of the notebook
    experiments,
    outcomes,
    results,
    resultsVensim,
    raised,        \* the exception a cell ended with, or "none"
    log,           \* the messages written to stderr
    logLevel       \* the level of the process-wide logger, or "unset"

vars == << pc, models, evaluator, scenarios, callback, running,
           resultsPython, experiments, outcomes, results, resultsVensim,
           raised, log, logLevel >>

Workers == 1 .. MaxProcesses
Experiments == 1 .. NumScenarios

NoEvaluator ==
    [kind |-> "none", model |-> "", pool |-> "none", n_processes |-> 0,
     phase |-> "none"]
NoResult == [done |-> FALSE]

Init ==
    /\ pc = "imports"
    /\ models = [m \in ModelNames |-> Undefined]
    /\ evaluator = NoEvaluator
    /\ scenarios = << >>
    /\ callback = [i \in Experiments |-> NoResult]
    /\ running = [w \in Workers |-> 0]
    /\ resultsPython = Unbound
    /\ experiments = Unbound
    /\ outcomes = Unbound
    /\ results = Unbound
    /\ resultsVensim = Unbound
    /\ raised = "none"
    /\ log = << >>
    /\ logLevel = "unset"

\* ------------------------------------------------------------ the sampler
ParameterNames(uncertainties) ==
    { uncertainties[k].name : k \in 1 .. Len(uncertainties) }

ParameterNamed(uncertainties, n) ==
    uncertainties[CHOOSE k \in 1 .. Len(uncertainties) :
                      uncertainties[k].name = n]

\* the value of parameter p at level l of its range
SampleValue(p, l) == p.lower + (l * (p.upper - p.lower)) \div Levels

\* one scenario: a value for every uncertainty of the model
Sample(uncertainties, l) ==
    [n \in ParameterNames(uncertainties) |->
        SampleValue(ParameterNamed(uncertainties, n), l)]

\* perform_experiments(model, n) with a number for the scenarios draws its
\* own sample of n scenarios from the uncertainties of that model
sample_uncertainties(model, lv) ==
    [i \in Experiments |-> Sample(model.uncertainties, lv[i])]

\* ----------------------------------------------------------- one experiment
OutcomeNames(model) ==
    { model.outcomes[k].name : k \in 1 .. Len(model.outcomes) }

OutcomeNamed(model, n) ==
    model.outcomes[CHOOSE k \in 1 .. Len(model.outcomes) :
                       model.outcomes[k].name = n]

\* the number of time steps of the series the model returns for outcome n
SeriesLength(model, n) ==
    CASE model.kind = "ExcelModel"   -> RangeLength(OutcomeNamed(model, n))
      [] model.kind = "NetLogoModel" -> model.run_length
      [] OTHER                       -> PredPreySteps

\* the outcome series of one run: per outcome name, the series (its length)
run_experiment(model, scenario) ==
    [n \in OutcomeNames(model) |-> SeriesLength(model, n)]

ExperimentResult(model, scenario) ==
    [done |-> TRUE, scenario |-> scenario,
     outcome |-> run_experiment(model, scenario)]

\* ------------------------------------------------------------------- cells
\* log_to_stderr that leaves the logger at the level below the one asked
log_to_stderr_debug(level) == IF level = "INFO" THEN "DEBUG" ELSE level

\* ema_logging.log_to_stderr(level): the level the process-wide logger gets
log_to_stderr(level) == level

\* a message logged at INFO reaches stderr when the logger is at INFO
Logged(msg) ==
    log' = IF logLevel = "INFO" THEN Append(log, msg) ELSE log

\* import cell: the names the later cells use, and the logging set-up
Imports ==
    /\ pc = "imports"
    /\ logLevel' = log_to_stderr("INFO")
    /\ pc' = "defPython"
    /\ UNCHANGED << models, evaluator, scenarios, callback, running,
                    resultsPython, experiments, outcomes, results,
                    resultsVensim, raised, log >>

\* a cell that builds a model object and sets its fields
DefineModel(cell, var, def, next) ==
    /\ pc = cell
    /\ models' = [models EXCEPT ![var] = def]
    /\ pc' = next
    /\ UNCHANGED << evaluator, scenarios, callback, running,
                    resultsPython, experiments, outcomes, results,
                    resultsVensim, raised, log >>
    /\ UNCHANGED logLevel

\* a check that takes any object with uncertainties and outcomes for a model
IsWorkbenchModel_any(model) == model.kind # "undefined"

IsWorkbenchModel(model) == model.kind \in {"Model", "ExcelModel", "NetLogoModel"}

\* with SequentialEvaluator(model) as evaluator:
EnterSequential(cell, var) ==
    /\ pc = cell
    /\ evaluator = NoEvaluator
    /\ evaluator' = [kind |-> "sequential", model |-> var, pool |-> "none",
                     n_processes |-> 0, phase |-> "entered"]
    /\ UNCHANGED << pc, models, scenarios, callback, running,
                    resultsPython, experiments, outcomes, results,
                    resultsVensim, raised, log >>
    /\ UNCHANGED logLevel

\* with MultiprocessingEvaluator(model) as evaluator: no n_processes is
\* given, the pool gets one worker per core of the machine.  For an object
\* that is not a workbench model the initialisation raises TypeError and
\* the cell ends there.
EnterMultiprocessing(cell, var, next) ==
    /\ pc = cell
    /\ evaluator = NoEvaluator
    /\ IF IsWorkbenchModel(models[var])
       THEN /\ \E n \in 1 .. MaxProcesses :
                  evaluator' = [kind |-> "multiprocessing", model |-> var,
                                pool |-> "started", n_processes |-> n,
                                phase |-> "entered"]
            /\ Logged("pool started")
            /\ UNCHANGED << pc, raised >>
       ELSE /\ raised' = "TypeError"
            /\ pc' = next
            /\ UNCHANGED << evaluator, log >>
    /\ UNCHANGED << models, scenarios, callback, running,
                    resultsPython, experiments, outcomes, results,
                    resultsVensim >>
    /\ UNCHANGED logLevel

\* perform_experiments(model, 50): sample the scenarios, announce the batch
PerformExperiments ==
    /\ evaluator.phase = "entered"
    /\ \E lv \in [Experiments -> 0 .. Levels] :
          scenarios' = sample_uncertainties(models[evaluator.model], lv)
    /\ callback' = [i \in Experiments |-> NoResult]
    /\ evaluator' = [evaluator EXCEPT !.phase = "performing"]
    /\ Logged("performing experiments")
    /\ UNCHANGED << pc, models, running, resultsPython, experiments,
                    outcomes, results, resultsVensim, raised >>
    /\ UNCHANGED logLevel

Pending == { i \in Experiments :
               /\ ~ callback[i].done
               /\ \A w \in Workers : running[w] # i }

NextPending == CHOOSE i \in Pending : \A j \in Pending : i <= j

\* sequential evaluator: the next experiment is run and its result stored
RunSequential ==
    /\ evaluator.kind = "sequential"
    /\ evaluator.phase = "performing"
    /\ Pending # {}
    /\ callback' = [callback EXCEPT ![NextPending] =
           ExperimentResult(models[evaluator.model], scenarios[NextPending])]
    /\ UNCHANGED << pc, models, evaluator, scenarios, running,
                    resultsPython, experiments, outcomes, results,
                    resultsVensim, raised, log >>
    /\ UNCHANGED logLevel

\* pool: an idle worker process takes the next experiment
Dispatch(w) ==
    /\ evaluator.kind = "multiprocessing"
    /\ evaluator.phase = "performing"
    /\ w <= evaluator.n_processes
    /\ running[w] = 0
    /\ Pending # {}
    /\ running' = [running EXCEPT ![w] = NextPending]
    /\ UNCHANGED << pc, models, evaluator, scenarios, callback,
                    resultsPython, experiments, outcomes, results,
                    resultsVensim, raised, log >>
    /\ UNCHANGED logLevel

\* pool: a worker process finishes its experiment, the result is collected
Complete(w) ==
    /\ evaluator.kind = "multiprocessing"
    /\ running[w] # 0
    /\ callback' = [callback EXCEPT ![running[w]] =
           ExperimentResult(models[evaluator.model], scenarios[running[w]])]
    /\ running' = [running EXCEPT ![w] = 0]
    /\ UNCHANGED << pc, models, evaluator, scenarios,
                    resultsPython, experiments, outcomes, results,
                    resultsVensim, raised, log >>
    /\ UNCHANGED logLevel

\* what perform_experiments returns: the experiments and the outcomes
Collected ==
    [bound |-> TRUE,
     experiments |-> [i \in Experiments |-> callback[i].scenario],
     outcomes |-> [i \in Experiments |-> callback[i].outcome]]

\* the number of experiments of the batch whose result is in
Completed == Cardinality({ i \in Experiments : callback[i].done })

\* what has been collected, with an empty entry for a case not yet in
CollectedSoFar ==
    [bound |-> TRUE,
     experiments |-> [i \in Experiments |->
                        IF callback[i].done THEN callback[i].scenario
                        ELSE << >>],
     outcomes |-> [i \in Experiments |->
                     IF callback[i].done THEN callback[i].outcome
                     ELSE << >>]]

\* perform_experiments that returns when all cases but the last are in
Finish_early ==
    /\ evaluator.phase = "performing"
    /\ Completed >= NumScenarios - 1
    /\ evaluator' = [evaluator EXCEPT !.phase = "finished"]
    /\ Logged("experiments finished")
    /\ resultsPython' = IF pc = "runPython" THEN CollectedSoFar
                        ELSE resultsPython
    /\ experiments' = IF pc = "runExcel"
                      THEN [bound |-> TRUE,
                            experiments |-> CollectedSoFar.experiments]
                      ELSE experiments
    /\ outcomes' = IF pc = "runExcel"
                   THEN [bound |-> TRUE, outcomes |-> CollectedSoFar.outcomes]
                   ELSE outcomes
    /\ results' = IF pc = "runNetlogo" THEN CollectedSoFar ELSE results
    /\ resultsVensim' = IF pc = "runVensim" THEN CollectedSoFar
                        ELSE resultsVensim
    /\ UNCHANGED << pc, models, scenarios, callback, running, raised,
                    logLevel >>

\* all experiments are in: perform_experiments returns and the cell binds
\* what it returned to its variable(s)
Finish ==
    /\ evaluator.phase = "performing"
    /\ \A i \in Experiments : callback[i].done
    /\ evaluator' = [evaluator EXCEPT !.phase = "finished"]
    /\ Logged("experiments finished")
    /\ resultsPython' = IF pc = "runPython" THEN Collected ELSE resultsPython
    /\ experiments' = IF pc = "runExcel"
                      THEN [bound |-> TRUE, experiments |-> Collected.experiments]
                      ELSE experiments
    /\ outcomes' = IF pc = "runExcel"
                   THEN [bound |-> TRUE, outcomes |-> Collected.outcomes]
                   ELSE outcomes
    /\ results' = IF pc = "runNetlogo" THEN Collected ELSE results
    /\ resultsVensim' = IF pc = "runVensim" THEN Collected ELSE resultsVensim
    /\ UNCHANGED << pc, models, scenarios, callback, running, raised >>
    /\ UNCHANGED logLevel

NextCell(cell) ==
    CASE cell = "runPython"  -> "defExcel"
      [] cell = "runExcel"   -> "defNetlogo"
      [] cell = "runNetlogo" -> "defVensim"
      [] OTHER               -> "end"

\* leaving the block without terminating the pool
ExitEvaluator_open ==
    /\ evaluator.phase = "finished"
    /\ evaluator' = NoEvaluator
    /\ scenarios' = << >>
    /\ callback' = [i \in Experiments |-> NoResult]
    /\ pc' = NextCell(pc)
    /\ UNCHANGED << models, running, resultsPython, experiments, outcomes,
                    results, resultsVensim, raised, log, logLevel >>

\* the with-block is left: a pool is terminated, the next cell is run
ExitEvaluator ==
    /\ evaluator.phase = "finished"
    /\ IF evaluator.kind = "multiprocessing"
       THEN Logged("terminating pool")
       ELSE UNCHANGED log
    /\ evaluator' = NoEvaluator
    /\ scenarios' = << >>
    /\ callback' = [i \in Experiments |-> NoResult]
    /\ pc' = NextCell(pc)
    /\ UNCHANGED << models, running, resultsPython, experiments, outcomes,
                    results, resultsVensim, raised >>
    /\ UNCHANGED logLevel

Next ==
    \/ Imports
    \/ DefineModel("defPython", "modelPython", modelPythonDef, "runPython")
    \/ EnterSequential("runPython", "modelPython")
    \/ DefineModel("defExcel", "modelExcel", modelExcelDef, "runExcel")
    \/ EnterMultiprocessing("runExcel", "modelExcel", "defNetlogo")
    \/ DefineModel("defNetlogo", "modelNetlogo", modelNetlogoDef, "runNetlogo")
    \/ EnterMultiprocessing("runNetlogo", "modelNetlogo", "defVensim")
    \/ DefineModel("defVensim", "modelVensim", modelVensimDef, "runVensim")
    \/ EnterMultiprocessing("runVensim", "modelVensim", "end")
    \/ PerformExperiments
    \/ RunSequential
    \/ \E w \in Workers : Dispatch(w)
    \/ \E w \in Workers : Complete(w)
    \/ Finish
    \/ ExitEvaluator

Spec == Init /\ [][Next]_vars

\* ---------------------------------------------------- the result collection
Backends == {"Python", "Excel", "NetLogo", "Vensim"}

ModelOf(b) ==
    CASE b = "Python"  -> "modelPython"
      [] b = "Excel"   -> "modelExcel"
      [] b = "NetLogo" -> "modelNetlogo"
      [] OTHER         -> "modelVensim"

\* what the notebook holds for a backend: the variable(s) its cell binds
ResultsOf(b) ==
    CASE b = "Python"  -> resultsPython
      [] b = "Excel"   -> IF experiments.bound /\ outcomes.bound
                          THEN [bound |-> TRUE,
                                experiments |-> experiments.experiments,
                                outcomes |-> outcomes.outcomes]
                          ELSE Unbound
      [] b = "NetLogo" -> results
      [] OTHER         -> resultsVensim

Pairs == Backends \X Experiments

\* the pairs that have an entry with an outcome series
Successful == { p \in Pairs : ResultsOf(p[1]).bound }

\* what is returned is (experiments, outcomes): no entry has an error field
FailureMarker(b, i) == "none"

FailureMarked == { p \in Pairs : FailureMarker(p[1], p[2]) # "none" }

ScenarioOf(b, i) == ResultsOf(b).experiments[i]
OutcomeOf(b, i) == ResultsOf(b).outcomes[i]

\* the values of a scenario in the order the uncertainties are declared
ScenarioValues(b, i) ==
    [k \in 1 .. Len(models[ModelOf(b)].uncertainties) |->
        ScenarioOf(b, i)[models[ModelOf(b)].uncertainties[k].name]]

\* the numbers of time steps of the series of one outcome
Steps(o) == { o[n] : n \in DOMAIN o }

NotebookDone == pc = "end"

\* ------------------------------------------------------------------ claims

\* C1: when the batch is over the result collection holds one entry for
\* every (scenario, backend) pair: successful entries plus entries with a
\* failure marker are as many as scenarios times backends.
C1_OneEntryPerPair ==
    NotebookDone =>
        /\ Successful \cap FailureMarked = {}
        /\ Cardinality(Successful) + Cardinality(FailureMarked)
              = NumScenarios * Cardinality(Backends)

\* C2: a backend that cannot complete leaves a BackendExecutionError on its
\* pairs in the result collection, and nothing is raised across the batch.
C2_FailureAttachedNotRaised ==
    /\ raised = "none"
    /\ NotebookDone =>
          \A p \in Pairs :
              \/ p \in Successful
              \/ FailureMarker(p[1], p[2]) = "BackendExecutionError"

\* C5: a scenario is run with the same parameter values against every
\* backend: the i-th scenario recorded for one backend has the values of the
\* i-th scenario recorded for any other.
C5_SameScenarioAcrossBackends ==
    NotebookDone =>
        \A b1, b2 \in Backends : \A i \in Experiments :
            (<<b1, i>> \in Successful /\ <<b2, i>> \in Successful)
                => ScenarioValues(b1, i) = ScenarioValues(b2, i)

\* C6: for a fixed scenario every backend returns an outcome series with
\* the same variable names and the same number of time steps.
C6_SameShapeAcrossBackends ==
    NotebookDone =>
        \A b1, b2 \in Backends : \A i, j \in Experiments :
            ( /\ <<b1, i>> \in Successful
              /\ <<b2, j>> \in Successful
              /\ ScenarioValues(b1, i) = ScenarioValues(b2, j) )
                => /\ DOMAIN OutcomeOf(b1, i) = DOMAIN OutcomeOf(b2, j)
                   /\ Steps(OutcomeOf(b1, i)) = Steps(OutcomeOf(b2, j))

\* C7: when two backends return series of different numbers of time steps
\* for the same scenario, a ShapeMismatchError is recorded for the pair and
\* the series are kept as the backend returned them.
C7_ShapeMismatchRecorded ==
    NotebookDone =>
        \A b1, b2 \in Backends : \A i, j \in Experiments :
            ( /\ <<b1, i>> \in Successful
              /\ <<b2, j>> \in Successful
              /\ ScenarioValues(b1, i) = ScenarioValues(b2, j)
              /\ Steps(OutcomeOf(b1, i)) # Steps(OutcomeOf(b2, j)) )
                => /\ FailureMarker(b1, i) = "ShapeMismatchError"
                   /\ OutcomeOf(b1, i)
                        = run_experiment(models[ModelOf(b1)], ScenarioOf(b1, i))

\* the experiments being run by worker processes
InProgress == { w \in Workers : running[w] # 0 }

C14_NoProcessWideMutation == [][logLevel' = logLevel]_vars

\* C14 as amended: the import cell sets the process-wide log level to INFO;
\* no other step (defining a model, entering or leaving an evaluator,
\* performing or running experiments) changes it.
C14_OnlySetupSetsLogLevel ==
    [][IF pc = "imports" THEN logLevel' = "INFO"
                         ELSE logLevel' = logLevel]_vars

\* a batch on a pool has been performed with the logger set up
C14_Witness ==
    /\ pc = "defNetlogo"
    /\ logLevel = "INFO"
    /\ outcomes.bound

\* ------------------------------------------------------- order of a batch
Count(msg) == Cardinality({ k \in 1 .. Len(log) : log[k] = msg })

\* a pool has been started and not yet terminated
PoolOpen == Count("pool started") = Count("terminating pool") + 1

\* the messages of a batch come in the order of the recorded output
LogInOrder ==
    \A k \in 1 .. Len(log) :
        /\ log[k] = "pool started" =>
              (k < Len(log) => log[k + 1] = "performing experiments")
        /\ log[k] = "experiments finished" =>
              (k > 1 /\ log[k - 1] = "performing experiments")
        /\ log[k] = "terminating pool" =>
              (k > 1 /\ log[k - 1] = "experiments finished")

C16_CompletedCount ==
    /\ [](Completed <= NumScenarios)
    /\ [](evaluator.phase = "finished" => Completed = NumScenarios)
    /\ [][(evaluator.phase = "performing" /\ evaluator'.phase # "none")
             => Completed' >= Completed]_vars

\* a batch on a pool is reported finished with all its cases completed
C16_Witness ==
    /\ evaluator.kind = "multiprocessing"
    /\ evaluator.phase = "finished"
    /\ Completed = NumScenarios

\* C17: the evaluator cannot be initialised for the PySD object: nothing of
\* the Vensim batch happens (no evaluator, no scenario sampled or run, no
\* result bound), and the step that fails leaves the results of the earlier
\* batches and the log as they were.
C17_FailsBeforeAnyExperiment ==
    /\ []((pc \in {"runVensim", "end"}
             /\ models["modelVensim"].kind = "pysd")
            => /\ evaluator = NoEvaluator
               /\ scenarios = << >>
               /\ InProgress = {}
               /\ Completed = 0
               /\ resultsVensim = Unbound)
    /\ [][(raised = "none" /\ raised' # "none")
            => UNCHANGED << resultsPython, experiments, outcomes, results,
                            resultsVensim, scenarios, callback, log >>]_vars

\* the Vensim cell has failed after the three other batches were bound
C17_Witness ==
    /\ pc = "end"
    /\ raised = "TypeError"
    /\ resultsPython.bound /\ outcomes.bound /\ results.bound
    /\ resultsVensim = Unbound

====
